---- MODULE Spec2Model ----
(***************************************************************************)
(* Model of the cyn lexer (src/buffers/parse.rs), its punctuator matcher   *)
(* and terminal markers (src/tokens.rs) and token emission                 *)
(* (src/to_tokens.rs).                                                     *)
(*                                                                         *)
(* Characters are one-character strings, texts are sequences of            *)
(* characters.  Spec is the tokenizer: one action per iteration of the     *)
(* scanner's main loop (one per match arm) and one per step of the         *)
(* token-tree builder.  SpecParse is emission followed by marker parsing.  *)
(***************************************************************************)
EXTENDS Integers, Sequences, FiniteSets, TLC

VARIABLES
    input,      \* split: the source text handed to parse_str
    n,          \* split: number of characters the from_fn closure has pulled
    peeked,     \* split: TRUE iff the Peekable holds input[n] as lookahead
    col,        \* split: Cell col
    row,        \* split: Cell row
    col_old,    \* split: Cell col_old
    row_old,    \* split: Cell row_old
    vec,        \* split: the Vec<Parsed> being filled
    first,      \* history: first[i] is the index in input of vec[i]'s first character
    pc,         \* "split", "fold" or "done"
    result,     \* "none", "ok", "err" or "panic": how parse_str ended
    error,      \* the Error returned when result = "err"
    errAt,      \* history: index in input of the character the failing arm was entered on
    stack,      \* into_boxed: the active calls, innermost last
    tree,       \* the Box<[TokenCell]> returned when result = "ok"
    ts,         \* emission/parsing: the TokenStream
    cursor,     \* parsing: index of the ParseStream's cursor into ts (0-based)
    mode,       \* "emit" or "parse"
    res         \* parsing: what the last parse call returned

lexVars == <<input, n, peeked, col, row, col_old, row_old, vec, first, pc,
             result, error, errAt, stack, tree>>
parseVars == <<ts, cursor, mode, res>>
vars == <<lexVars, parseVars>>

-----------------------------------------------------------------------------
(* Bounds of the model.                                                    *)

\* longest source text over CoreAlphabet
MaxLen == 4
\* longest source text over the six delimiter characters
MaxDelimLen == 4
\* number of characters that may follow a punctuator prefix
MaxTail == 1
\* most tokens emitted into a TokenStream
MaxStream == 2
\* number of characters that may follow a keyword's text
MaxKwTail == 1

-----------------------------------------------------------------------------
(* Tables of tokens.rs.                                                    *)

KEYWORDS ==
    << [str |-> <<"a", "u", "t", "o">>, ident |-> "Auto"],
       [str |-> <<"e", "x", "t", "e", "r", "n">>, ident |-> "Extern"],
       [str |-> <<"s", "h", "o", "r", "t">>, ident |-> "Short"],
       [str |-> <<"w", "h", "i", "l", "e">>, ident |-> "While"],
       [str |-> <<"b", "r", "e", "a", "k">>, ident |-> "Break"],
       [str |-> <<"f", "l", "o", "a", "t">>, ident |-> "Float"],
       [str |-> <<"s", "i", "g", "n", "e", "d">>, ident |-> "Signed"],
       [str |-> <<"_", "A", "l", "i", "g", "n", "a", "s">>, ident |-> "_Alignas"],
       [str |-> <<"c", "a", "s", "e">>, ident |-> "Case"],
       [str |-> <<"f", "o", "r">>, ident |-> "For"],
       [str |-> <<"s", "i", "z", "e", "o", "f">>, ident |-> "Sizeof"],
       [str |-> <<"_", "A", "l", "i", "g", "n", "o", "f">>, ident |-> "_Alignof"],
       [str |-> <<"c", "h", "a", "r">>, ident |-> "Char"],
       [str |-> <<"g", "o", "t", "o">>, ident |-> "Goto"],
       [str |-> <<"s", "t", "a", "t", "i", "c">>, ident |-> "Static"],
       [str |-> <<"_", "A", "t", "o", "m", "i", "c">>, ident |-> "_Atomic"],
       [str |-> <<"c", "o", "n", "s", "t">>, ident |-> "Const"],
       [str |-> <<"i", "f">>, ident |-> "If"],
       [str |-> <<"s", "t", "r", "u", "c", "t">>, ident |-> "Struct"],
       [str |-> <<"_", "B", "o", "o", "l">>, ident |-> "_Bool"],
       [str |-> <<"C", "o", "n", "t", "i", "n", "u", "e">>, ident |-> "Continue"],
       [str |-> <<"i", "n", "l", "i", "n", "e">>, ident |-> "Inline"],
       [str |-> <<"s", "w", "i", "t", "c", "h">>, ident |-> "Switch"],
       [str |-> <<"_", "C", "o", "m", "p", "l", "e", "x">>, ident |-> "_Complex"],
       [str |-> <<"d", "e", "f", "a", "u", "l", "t">>, ident |-> "Default"],
       [str |-> <<"i", "n", "t">>, ident |-> "Int"],
       [str |-> <<"t", "y", "p", "e", "d", "e", "f">>, ident |-> "Typedef"],
       [str |-> <<"_", "G", "e", "n", "e", "r", "i", "c">>, ident |-> "_Generic"],
       [str |-> <<"d", "o">>, ident |-> "Do"],
       [str |-> <<"l", "o", "n", "g">>, ident |-> "Long"],
       [str |-> <<"u", "n", "i", "o", "n">>, ident |-> "Union"],
       [str |-> <<"_", "I", "m", "a", "g", "i", "n", "a", "r", "y">>, ident |-> "_Imaginary"],
       [str |-> <<"d", "o", "u", "b", "l", "e">>, ident |-> "Double"],
       [str |-> <<"r", "e", "g", "i", "s", "t", "e", "r">>, ident |-> "Register"],
       [str |-> <<"u", "n", "s", "i", "g", "n", "e", "d">>, ident |-> "Unsigned"],
       [str |-> <<"_", "N", "o", "r", "e", "t", "u", "r", "n">>, ident |-> "_Noreturn"],
       [str |-> <<"e", "l", "s", "e">>, ident |-> "Else"],
       [str |-> <<"r", "e", "s", "t", "r", "i", "c", "t">>, ident |-> "Restrict"],
       [str |-> <<"v", "o", "i", "d">>, ident |-> "Void"],
       [str |-> <<"_", "S", "t", "a", "t", "i", "c", "_", "a", "s", "s", "e", "r", "t">>, ident |-> "_Static_assert"],
       [str |-> <<"e", "n", "u", "m">>, ident |-> "Enum"],
       [str |-> <<"r", "e", "t", "u", "r", "n">>, ident |-> "Return"],
       [str |-> <<"v", "o", "l", "a", "t", "i", "l", "e">>, ident |-> "Volatile"],
       [str |-> <<"_", "T", "h", "r", "e", "a", "d", "_", "l", "o", "c", "a", "l">>, ident |-> "_Thread_local"] >>

MATCH_PUNCT ==
    << [str |-> <<".">>, punct |-> "Dot"],
       [str |-> <<"-", ">">>, punct |-> "Arrow"],
       [str |-> <<"+", "+">>, punct |-> "PlusPlus"],
       [str |-> <<"-", "-">>, punct |-> "MinusMinus"],
       [str |-> <<"&">>, punct |-> "Ampersand"],
       [str |-> <<"*">>, punct |-> "Asterix"],
       [str |-> <<"+">>, punct |-> "Plus"],
       [str |-> <<"-">>, punct |-> "Minus"],
       [str |-> <<"~">>, punct |-> "Tilde"],
       [str |-> <<"!">>, punct |-> "ExclamationMark"],
       [str |-> <<"/">>, punct |-> "Slash"],
       [str |-> <<"%">>, punct |-> "Percent"],
       [str |-> <<"<", "<">>, punct |-> "DoubleLeftArrow"],
       [str |-> <<">", ">">>, punct |-> "DoubleRightArrow"],
       [str |-> <<"<">>, punct |-> "LeftArrow"],
       [str |-> <<">">>, punct |-> "RightArrow"],
       [str |-> <<"<", "=">>, punct |-> "LeftEqualArrow"],
       [str |-> <<">", "=">>, punct |-> "RightEqualArrow"],
       [str |-> <<"=", "=">>, punct |-> "EqualEqual"],
       [str |-> <<"!", "=">>, punct |-> "ExclamationEqual"],
       [str |-> <<"^">>, punct |-> "Carat"],
       [str |-> <<"|">>, punct |-> "VerticalBar"],
       [str |-> <<"&", "&">>, punct |-> "DoubleAmpersand"],
       [str |-> <<"|", "|">>, punct |-> "DoubleVerticalBar"],
       [str |-> <<"?">>, punct |-> "QuestionMark"],
       [str |-> <<":">>, punct |-> "Colon"],
       [str |-> <<";">>, punct |-> "SemiColon"],
       [str |-> <<".", ".", ".">>, punct |-> "DotDotDot"],
       [str |-> <<"=">>, punct |-> "Equal"],
       [str |-> <<"*", "=">>, punct |-> "AsterixEqual"],
       [str |-> <<"/", "=">>, punct |-> "SlashEqual"],
       [str |-> <<"%", "=">>, punct |-> "PercentEqual"],
       [str |-> <<"+", "=">>, punct |-> "PlusEqual"],
       [str |-> <<"-", "=">>, punct |-> "MinusEqual"],
       [str |-> <<"<", "<", "=">>, punct |-> "DoubleLeftArrowEqual"],
       [str |-> <<">", ">", "=">>, punct |-> "DoubleRightArrowEqual"],
       [str |-> <<"&", "=">>, punct |-> "AmpersandEqual"],
       [str |-> <<"^", "=">>, punct |-> "CaratEqual"],
       [str |-> <<"|", "=">>, punct |-> "VerticalBarEqual"],
       [str |-> <<",">>, punct |-> "Comma"],
       [str |-> <<"#">>, punct |-> "Hashtag"],
       [str |-> <<"#", "#">>, punct |-> "DoubleHashtag"],
       [str |-> <<"<", ":">>, punct |-> "LeftArrowColon"],
       [str |-> <<":", ">">>, punct |-> "ColonRightArrow"],
       [str |-> <<"<", "%">>, punct |-> "LeftArrowPercent"],
       [str |-> <<"%", ">">>, punct |-> "PercentRightArrow"],
       [str |-> <<"%", ":">>, punct |-> "PercentColon"],
       [str |-> <<"%", ":", "%", ":">>, punct |-> "DoublePercentColon"] >>

Delimeters == {"Paren", "Brace", "Bracket"}

\* split's arms '(' '{' '[' and ')' '}' ']'
GroupOf(c) == CASE c = "(" -> "Paren" [] c = "{" -> "Brace" [] c = "[" -> "Bracket"
EndOf(c) == CASE c = ")" -> "Paren" [] c = "}" -> "Brace" [] c = "]" -> "Bracket"
OpenChars == {"(", "{", "["}
CloseChars == {")", "}", "]"}

-----------------------------------------------------------------------------
(* Character classes (the ASCII part of char::is_alphabetic, is_numeric    *)
(* and is_whitespace).                                                     *)

Digits == <<"0", "1", "2", "3", "4", "5", "6", "7", "8", "9">>
Numeric == {Digits[i] : i \in 1..10}
Alphabetic ==
    {"a", "b", "c", "d", "e", "f", "g", "h", "i", "j", "k", "l", "m",
     "n", "o", "p", "q", "r", "s", "t", "u", "v", "w", "x", "y", "z",
     "A", "B", "C", "D", "E", "F", "G", "H", "I", "J", "K", "L", "M",
     "N", "O", "P", "Q", "R", "S", "T", "U", "V", "W", "X", "Y", "Z"}
Whitespace == {" ", "\n", "\t"}
Quote == "\""

is_alphabetic(c) == c \in Alphabetic
is_numeric(c) == c \in Numeric
is_whitespace(c) == c \in Whitespace

\* the predicates of the three peeking_take_while calls
\* the identifier predicate without its '_' arm
IdentRun_no_underscore == Alphabetic \cup Numeric

IdentRun == Alphabetic \cup Numeric \cup {"_"}
NumberRun == Numeric \cup {"."}

-----------------------------------------------------------------------------
(* tokens.rs: match_punct.                                                 *)

starts_with(cmp, str) ==
    /\ Len(str) <= Len(cmp)
    /\ SubSeq(cmp, 1, Len(str)) = str

NoPunct == "None"

\* match_punct without the Partial outcome: a strict prefix of a longer
\* punctuator is reported as None
match_punct_no_partial(str) ==
    LET found == {i \in 1..Len(MATCH_PUNCT) : MATCH_PUNCT[i].str = str}
    IN  IF found # {}
        THEN [kind |-> "Matched",
              punct |-> MATCH_PUNCT[CHOOSE i \in found : \A j \in found : i <= j].punct]
        ELSE [kind |-> "None", punct |-> NoPunct]

match_punct(str) ==
    LET filtered == {i \in 1..Len(MATCH_PUNCT) : starts_with(MATCH_PUNCT[i].str, str)}
        collected == Cardinality(filtered)
        found == {i \in filtered : MATCH_PUNCT[i].str = str}
    IN  IF found # {}
        THEN [kind |-> "Matched",
              punct |-> MATCH_PUNCT[CHOOSE i \in found : \A j \in found : i <= j].punct]
        ELSE IF collected # 0
             THEN [kind |-> "Partial", punct |-> NoPunct]
             ELSE [kind |-> "None", punct |-> NoPunct]

-----------------------------------------------------------------------------
(* parse.rs: the character iterator of split.  An iterator state is the    *)
(* record [n, peeked, col, row]: the closure has pulled n characters, and  *)
(* the Peekable holds the last of them as lookahead iff peeked.            *)

It == [n |-> n, peeked |-> peeked, col |-> col, row |-> row]

\* the closure with a newline arm that resets col but leaves row
from_fn_same_row(s) ==
    IF s.n < Len(input)
    THEN LET c == input[s.n + 1]
         IN  [s EXCEPT !.n = s.n + 1,
                       !.col = IF c = "\n" THEN 0 ELSE s.col + 1]
    ELSE s

\* the closure handed to std::iter::from_fn
from_fn(s) ==
    IF s.n < Len(input)
    THEN LET c == input[s.n + 1]
         IN  [s EXCEPT !.n = s.n + 1,
                       !.col = IF c = "\n" THEN 0 ELSE s.col + 1,
                       !.row = IF c = "\n" THEN s.row + 1 ELSE s.row]
    ELSE s

\* Peekable::peek: pulls a character unless one is already held
iter_peek(s) ==
    IF s.peeked \/ s.n >= Len(input) THEN s ELSE [from_fn(s) EXCEPT !.peeked = TRUE]

\* Peekable::next: hands out the held character, or pulls one
iter_next(s) ==
    IF s.peeked THEN [s EXCEPT !.peeked = FALSE] ELSE from_fn(s)

\* peeking_take_while(|c| c \in accept), run to its end by collect/for_each
RECURSIVE peeking_take_while(_, _)
peeking_take_while(s, accept) ==
    LET t == iter_peek(s)
    IN  IF t.peeked /\ input[t.n] \in accept
        THEN peeking_take_while(iter_next(t), accept)
        ELSE t

\* take_while(|&c| { found = c == '"'; !found }), run to its end by collect
RECURSIVE take_while_string(_)
take_while_string(s) ==
    LET t == iter_next(s)
    IN  IF ~s.peeked /\ s.n >= Len(input)
        THEN [it |-> s, found |-> FALSE]
        ELSE IF input[t.n] = Quote
             THEN [it |-> t, found |-> TRUE]
             ELSE take_while_string(t)

\* the loop of the punctuator arm; cur is cur_punct, exit is TRUE iff the
\* loop was left by break 'exit (the punctuator was pushed inside the loop)
RECURSIVE punct_loop(_, _, _)
punct_loop(s, punct, cur) ==
    LET t == iter_peek(s)
    IN  IF ~t.peeked
        THEN [it |-> t, punct |-> punct, cur |-> cur, exit |-> FALSE]
        ELSE LET pushed == Append(punct, input[t.n])
                 m == match_punct(pushed)
             IN  CASE m.kind = "Matched" -> punct_loop(iter_next(t), pushed, m.punct)
                   [] m.kind = "Partial" -> punct_loop(iter_next(t), pushed, NoPunct)
                   [] m.kind = "None" ->
                        [it |-> t, punct |-> pushed, cur |-> cur, exit |-> cur # NoPunct]

-----------------------------------------------------------------------------
(* str::parse::<i128> on a run of digits and '.'.  An integer is kept as   *)
(* its decimal digits without leading zeros.                               *)

I128_MAX ==
    <<"1", "7", "0", "1", "4", "1", "1", "8", "3", "4", "6", "0", "4",
      "6", "9", "2", "3", "1", "7", "3", "1", "6", "8", "7", "3", "0",
      "3", "7", "1", "5", "8", "8", "4", "1", "0", "5", "7", "2", "7">>

DigitVal(c) == CHOOSE d \in 0..9 : Digits[d + 1] = c

RECURSIVE StripZeros(_)
StripZeros(s) ==
    IF Len(s) > 1 /\ s[1] = "0" THEN StripZeros(Tail(s)) ELSE s

\* a < b for digit strings of equal length
RECURSIVE DigitsLess(_, _)
DigitsLess(a, b) ==
    IF a = <<>> THEN FALSE
    ELSE IF a[1] # b[1] THEN DigitVal(a[1]) < DigitVal(b[1])
    ELSE DigitsLess(Tail(a), Tail(b))

parse_i128(number) ==
    LET d == StripZeros(number)
    IN  IF \E i \in 1..Len(number) : number[i] \notin Numeric
        THEN [ok |-> FALSE, v |-> <<>>]
        ELSE IF Len(d) > Len(I128_MAX) \/ (Len(d) = Len(I128_MAX) /\ DigitsLess(I128_MAX, d))
             THEN [ok |-> FALSE, v |-> <<>>]
             ELSE [ok |-> TRUE, v |-> d]

-----------------------------------------------------------------------------
(* parse.rs: split.                                                        *)

Parsed(ty, text, name) ==
    [col |-> col_old, row |-> row_old, ty |-> ty, text |-> text, name |-> name]

SetIt(s) ==
    /\ n' = s.n
    /\ peeked' = s.peeked
    /\ col' = s.col
    /\ row' = s.row

\* macro p!: the unit takes the old position, the old position becomes the
\* current one (s is the iterator state the arm has reached)
p(s, start, ty, text, name) ==
    /\ vec' = Append(vec, Parsed(ty, text, name))
    /\ col_old' = s.col
    /\ row_old' = s.row
    /\ first' = Append(first, start)

\* macro e!
e(msg) == [msg |-> msg, col |-> col_old, row |-> row_old]

Scanning == pc = "split"
Proceed == UNCHANGED <<input, pc, result, error, errAt, stack, tree, parseVars>>
Fail(s, start, how, err) ==
    /\ SetIt(s)
    /\ pc' = "done"
    /\ result' = how
    /\ error' = err
    /\ errAt' = start
    /\ UNCHANGED <<input, col_old, row_old, vec, first, stack, tree, parseVars>>

NoError == [msg |-> "", col |-> 0, row |-> 0]

\* arm: c if c.is_alphabetic()
ScanIdent ==
    LET s0 == iter_peek(It)
        s1 == peeking_take_while(s0, IdentRun)
        ident == SubSeq(input, s0.n, IF s1.peeked THEN s1.n - 1 ELSE s1.n)
    IN  /\ Scanning
        /\ s0.peeked /\ is_alphabetic(input[s0.n])
        /\ SetIt(s1)
        /\ p(s1, s0.n, "Ident", ident, "")
        /\ Proceed

\* arm: c if c.is_numeric(); the unwrap of a failed parse panics
ScanNumber ==
    LET s0 == iter_peek(It)
        s1 == peeking_take_while(s0, NumberRun)
        number == SubSeq(input, s0.n, IF s1.peeked THEN s1.n - 1 ELSE s1.n)
        parsed == parse_i128(number)
    IN  /\ Scanning
        /\ s0.peeked /\ is_numeric(input[s0.n])
        /\ IF parsed.ok
           THEN /\ SetIt(s1)
                /\ p(s1, s0.n, "Literal", parsed.v, "Int")
                /\ Proceed
           ELSE Fail(s1, s0.n, "panic", NoError)

\* arms: '(' '{' '['
ScanGroup ==
    LET s0 == iter_peek(It)
        s1 == iter_next(s0)
    IN  /\ Scanning
        /\ s0.peeked /\ input[s0.n] \in OpenChars
        /\ SetIt(s1)
        /\ p(s1, s0.n, "Group", <<>>, GroupOf(input[s0.n]))
        /\ Proceed

\* arms: ')' '}' ']'
ScanEnd ==
    LET s0 == iter_peek(It)
        s1 == iter_next(s0)
    IN  /\ Scanning
        /\ s0.peeked /\ input[s0.n] \in CloseChars
        /\ SetIt(s1)
        /\ p(s1, s0.n, "End", <<>>, EndOf(input[s0.n]))
        /\ Proceed

\* arm: '"'
ScanString ==
    LET s0 == iter_peek(It)
        s1 == iter_next(s0)
        taken == take_while_string(s1)
        s2 == taken.it
        string == SubSeq(input, s0.n + 1, s2.n - 1)
    IN  /\ Scanning
        /\ s0.peeked /\ input[s0.n] = Quote
        /\ IF taken.found
           THEN /\ SetIt(s2)
                /\ p(s2, s0.n, "Literal", string, "Str")
                /\ Proceed
           ELSE Fail(s2, s0.n, "err", e("missing closing '\"' for string literal"))

\* arm: c if c.is_whitespace()
ScanWhitespace ==
    LET s0 == iter_peek(It)
        s1 == peeking_take_while(s0, Whitespace)
    IN  /\ Scanning
        /\ s0.peeked /\ is_whitespace(input[s0.n])
        /\ SetIt(s1)
        /\ col_old' = s1.col
        /\ row_old' = s1.row
        /\ UNCHANGED <<vec, first>>
        /\ Proceed

\* arm: _
ScanPunct ==
    LET s0 == iter_peek(It)
        c == input[s0.n]
        l == punct_loop(s0, <<>>, NoPunct)
    IN  /\ Scanning
        /\ s0.peeked
        /\ ~is_alphabetic(c) /\ ~is_numeric(c) /\ ~is_whitespace(c)
        /\ c \notin OpenChars \cup CloseChars \cup {Quote}
        /\ IF l.cur # NoPunct
           THEN /\ SetIt(l.it)
                /\ p(l.it, s0.n, "Punct", <<>>, l.cur)
                /\ Proceed
           ELSE Fail(l.it, s0.n, "err", e("Expected punctuator"))

\* the while let ends: Ok(vec), and parse_str calls parsed_into_boxed_entries
ScanDone ==
    LET s0 == iter_peek(It)
    IN  /\ Scanning
        /\ ~s0.peeked
        /\ SetIt(s0)
        /\ pc' = "fold"
        /\ stack' = <<[iter |-> vec, vec |-> <<>>, group |-> "", col |-> 0, row |-> 0]>>
        /\ UNCHANGED <<input, col_old, row_old, vec, first, result, error, errAt, tree, parseVars>>

-----------------------------------------------------------------------------
(* parse.rs: parsed_into_boxed_entries.  stack holds one frame per active  *)
(* call of into_boxed: iter is what is left of the call's iterator, vec    *)
(* its Vec<TokenCell>; group, col and row are those of the Group unit the  *)
(* call builds the nested stream of ("" for the outermost call).           *)

TokenTree(ty, text, name, stream) ==
    [ty |-> ty, text |-> text, name |-> name, stream |-> stream]
TokenCell(c, r, tt) == [col |-> c, row |-> r, tt |-> tt]

\* index of the first unit of s that is End(group), 0 if there is none
RECURSIVE FirstEnd(_, _, _)
FirstEnd(s, group, i) ==
    IF i > Len(s) THEN 0
    ELSE IF s[i].ty = "End" /\ s[i].name = group THEN i
    ELSE FirstEnd(s, group, i + 1)

\* the take_while run on a copy of the iterator: the caller's iterator keeps
\* the units of the run
take_while_group_copy(s, group) ==
    LET i == FirstEnd(s, group, 1)
    IN  IF i = 0
        THEN [taken |-> s, rest |-> s]
        ELSE [taken |-> SubSeq(s, 1, i - 1), rest |-> s]

\* iter.by_ref().take_while(|cur| cur is not End(group)).collect(): taken is
\* the collected run, rest what is left of iter (the End itself is dropped)
take_while_group(s, group) ==
    LET i == FirstEnd(s, group, 1)
    IN  IF i = 0
        THEN [taken |-> s, rest |-> <<>>]
        ELSE [taken |-> SubSeq(s, 1, i - 1), rest |-> SubSeq(s, i + 1, Len(s))]

Folding == pc = "fold"
Top == stack[Len(stack)]
Below == SubSeq(stack, 1, Len(stack) - 1)
FoldFrame == UNCHANGED <<input, n, peeked, col, row, col_old, row_old, vec, first, errAt, parseVars>>

\* arms Ident, Literal, Punct of into_boxed
FoldLeaf ==
    /\ Folding
    /\ Top.iter # <<>>
    /\ LET next == Head(Top.iter)
       IN  /\ next.ty \in {"Ident", "Literal", "Punct"}
           /\ stack' = Append(Below,
                  [Top EXCEPT !.iter = Tail(Top.iter),
                              !.vec = Append(Top.vec,
                                  TokenCell(next.col, next.row,
                                      TokenTree(next.ty, next.text, next.name, <<>>)))])
    /\ UNCHANGED <<pc, result, error, tree>>
    /\ FoldFrame

\* arm Group: the run up to the first End of the same kind is taken off the
\* iterator and handed to a recursive call
FoldGroup ==
    /\ Folding
    /\ Top.iter # <<>>
    /\ LET next == Head(Top.iter)
           run == take_while_group(Tail(Top.iter), next.name)
       IN  /\ next.ty = "Group"
           /\ stack' = Append(Append(Below, [Top EXCEPT !.iter = run.rest]),
                  [iter |-> run.taken, vec |-> <<>>, group |-> next.name,
                   col |-> next.col, row |-> next.row])
    /\ UNCHANGED <<pc, result, error, tree>>
    /\ FoldFrame

\* arm End: the error leaves every active call through `?`
FoldEnd ==
    /\ Folding
    /\ Top.iter # <<>>
    /\ LET next == Head(Top.iter)
       IN  /\ next.ty = "End"
           /\ error' = [msg |-> "unexpected group delimiter.",
                        col |-> next.col, row |-> next.row]
    /\ pc' = "done"
    /\ result' = "err"
    /\ UNCHANGED <<stack, tree>>
    /\ FoldFrame

\* a recursive call returns Ok: the caller pushes the Group cell
FoldReturn ==
    /\ Folding
    /\ Top.iter = <<>>
    /\ Len(stack) > 1
    /\ LET caller == stack[Len(stack) - 1]
       IN  stack' = Append(SubSeq(stack, 1, Len(stack) - 2),
               [caller EXCEPT !.vec = Append(caller.vec,
                   TokenCell(Top.col, Top.row,
                       TokenTree("Group", <<>>, Top.group, Top.vec)))])
    /\ UNCHANGED <<pc, result, error, tree>>
    /\ FoldFrame

\* the outermost call returns Ok: parse_str returns the boxed entries
FoldDone ==
    /\ Folding
    /\ Top.iter = <<>>
    /\ Len(stack) = 1
    /\ tree' = Top.vec
    /\ result' = "ok"
    /\ pc' = "done"
    /\ UNCHANGED <<stack, error>>
    /\ FoldFrame

-----------------------------------------------------------------------------
(* The source texts the tokenizer is run on.                               *)

SeqsUpTo(S, k) == UNION {[1..m -> S] : m \in 0..k}

CoreAlphabet == {"a", "1", ".", "(", ")", Quote, " ", "\n"}
CoreInputs == SeqsUpTo(CoreAlphabet, MaxLen)

DelimInputs == SeqsUpTo(OpenChars \cup CloseChars, MaxDelimLen)

\* every non-empty prefix of a punctuator, followed by up to MaxTail characters
TailAlphabet == {".", ":", "=", "a", "_"}
PunctPrefixes ==
    UNION {{SubSeq(MATCH_PUNCT[i].str, 1, k) : k \in 1..Len(MATCH_PUNCT[i].str)} :
              i \in 1..Len(MATCH_PUNCT)}
PunctInputs == {q \o t : q \in PunctPrefixes, t \in SeqsUpTo(TailAlphabet, MaxTail)}

\* digit runs around the largest i128
NumberInputs ==
    {I128_MAX,
     [I128_MAX EXCEPT ![Len(I128_MAX)] = "8"],
     <<"0">> \o I128_MAX,
     I128_MAX \o <<"0">>}

\* the text of every keyword, followed by up to MaxKwTail characters
KwTailAlphabet == {"x", "_", "1", " "}
KeywordInputs ==
    {KEYWORDS[k].str \o t : k \in 1..Len(KEYWORDS), t \in SeqsUpTo(KwTailAlphabet, MaxKwTail)}

Inputs == CoreInputs \cup DelimInputs \cup PunctInputs \cup NumberInputs \cup KeywordInputs

NoRes == [call |-> "", ok |-> FALSE, value |-> ""]

ParseIdle ==
    /\ ts = <<>>
    /\ cursor = 0
    /\ mode = "idle"
    /\ res = NoRes

Init ==
    /\ input \in Inputs
    /\ n = 0
    /\ peeked = FALSE
    /\ col = 1
    /\ row = 1
    /\ col_old = 1
    /\ row_old = 1
    /\ vec = <<>>
    /\ first = <<>>
    /\ pc = "split"
    /\ result = "none"
    /\ error = NoError
    /\ errAt = 0
    /\ stack = <<>>
    /\ tree = <<>>
    /\ ParseIdle

\* TokenStream::from_str: the entries parse_str returned become a stream,
\* and a ParseStream over it starts on its first entry
FromStr ==
    /\ pc = "done"
    /\ result = "ok"
    /\ mode = "idle"
    /\ ts' = tree
    /\ cursor' = 0
    /\ mode' = "parse"
    /\ UNCHANGED <<res, lexVars>>

Next ==
    \/ ScanIdent
    \/ ScanNumber
    \/ ScanGroup
    \/ ScanEnd
    \/ ScanString
    \/ ScanWhitespace
    \/ ScanPunct
    \/ ScanDone
    \/ FoldLeaf
    \/ FoldGroup
    \/ FoldEnd
    \/ FoldReturn
    \/ FoldDone
    \/ FromStr

Spec == Init /\ [][Next]_vars

-----------------------------------------------------------------------------
(* Cursor, ParseStream and TokenStream (crate::buffers, crate::parse).     *)
(* A cursor is the 0-based index of the current entry of ts; Len(ts) is    *)
(* the end of the buffer.                                                  *)

AtEnd(c) == c >= Len(ts)

\* Cursor::ident: the current node as an identifier
cursor_ident(c) ==
    IF ~AtEnd(c) /\ ts[c + 1].tt.ty = "Ident"
    THEN [some |-> TRUE, ident |-> ts[c + 1].tt.text, rest |-> c + 1]
    ELSE [some |-> FALSE, ident |-> <<>>, rest |-> c]

\* Cursor::punct: the current node as a punctuator
cursor_punct(c) ==
    IF ~AtEnd(c) /\ ts[c + 1].tt.ty = "Punct"
    THEN [some |-> TRUE, punct |-> ts[c + 1].tt.name, rest |-> c + 1]
    ELSE [some |-> FALSE, punct |-> NoPunct, rest |-> c]

\* Cursor::group: the current node as a group of the given delimiter
cursor_group(c, delim) ==
    IF ~AtEnd(c) /\ ts[c + 1].tt.ty = "Group" /\ ts[c + 1].tt.name = delim
    THEN [some |-> TRUE, entries |-> ts[c + 1].tt.stream, rest |-> c + 1]
    ELSE [some |-> FALSE, entries |-> <<>>, rest |-> c]

\* ParseStream::skip: the cursor moves past the current entry
skip(c) == IF AtEnd(c) THEN c ELSE c + 1

\* ParseStream::step: the closure's cursor is committed on Ok only
step(c, outcome) == IF outcome.ok THEN outcome.cursor ELSE c

\* TokenStream::extend_one: one cell without a position is appended
extend_one(tokens, tt) == Append(tokens, TokenCell(0, 0, tt))

-----------------------------------------------------------------------------
(* tokens.rs: the terminal markers.  A keyword marker is an index into     *)
(* KEYWORDS, a punctuator marker an index into MATCH_PUNCT.                *)

Keywords == 1..Len(KEYWORDS)
Puncts == 1..Len(MATCH_PUNCT)

\* define_keywords!: Token::peek
keyword_peek(k, c) ==
    LET got == cursor_ident(c)
    IN  IF got.some THEN got.ident = KEYWORDS[k].str ELSE FALSE

\* define_punctuator!: Token::peek
punct_peek(q, c) ==
    LET got == cursor_punct(c)
    IN  IF got.some THEN got.punct = MATCH_PUNCT[q].punct ELSE FALSE

\* impl_token_parse! with the skip taken before the peek is tested
token_parse_skip_first(peek, c, marker) ==
    IF peek
    THEN [ok |-> TRUE, value |-> marker, cursor |-> skip(c)]
    ELSE [ok |-> FALSE, value |-> "", cursor |-> skip(c)]

\* impl_token_parse! without the skip
token_parse_no_skip(peek, c, marker) ==
    IF peek
    THEN [ok |-> TRUE, value |-> marker, cursor |-> c]
    ELSE [ok |-> FALSE, value |-> "", cursor |-> c]

\* impl_token_parse!: Parse::parse, given the marker's peek at the cursor
token_parse(peek, c, marker) ==
    IF peek
    THEN [ok |-> TRUE, value |-> marker, cursor |-> skip(c)]
    ELSE [ok |-> FALSE, value |-> "", cursor |-> c]

\* define_delimeter!: parse_inner
parse_inner(delim, c) ==
    LET got == cursor_group(c, delim)
        outcome == IF got.some
                   THEN [ok |-> TRUE, cursor |-> got.rest]
                   ELSE [ok |-> FALSE, cursor |-> c]
    IN  [ok |-> outcome.ok, entries |-> got.entries, cursor |-> step(c, outcome)]

\* quote_kw: ToTokens for a keyword marker
keyword_to_tokens(k, tokens) ==
    extend_one(tokens, TokenTree("Ident", KEYWORDS[k].str, "", <<>>))

\* quote_p: ToTokens for a punctuator marker
punct_to_tokens(q, tokens) ==
    extend_one(tokens, TokenTree("Punct", <<>>, MATCH_PUNCT[q].punct, <<>>))

\* to_tokens.rs: delimited(inner, delim) and ToTokens for Delimited; inner
\* is the stream the wrapped value emits into TokenStream::new_empty()
delimited_to_tokens(inner, delim, tokens) ==
    extend_one(tokens, TokenTree("Group", <<>>, delim, inner))

-----------------------------------------------------------------------------
(* Emission into ts, then parsing of ts.                                   *)

\* every marker can be emitted first; these can also follow another token
SampleKeywords == {k \in Keywords : KEYWORDS[k].ident = "Int"}
SamplePuncts == {q \in Puncts : MATCH_PUNCT[q].punct = "PlusPlus"}
\* Option<Int> as the value wrapped by parenthesized/bracketed/braced
InnerStreams == {<<>>} \cup {keyword_to_tokens(k, <<>>) : k \in SampleKeywords}

LexIdle ==
    /\ input = <<>>
    /\ n = 0
    /\ peeked = FALSE
    /\ col = 1
    /\ row = 1
    /\ col_old = 1
    /\ row_old = 1
    /\ vec = <<>>
    /\ first = <<>>
    /\ pc = "idle"
    /\ result = "none"
    /\ error = NoError
    /\ errAt = 0
    /\ stack = <<>>
    /\ tree = <<>>

InitParse ==
    /\ LexIdle
    /\ ts = <<>>
    /\ cursor = 0
    /\ mode = "emit"
    /\ res = NoRes

Emitting == mode = "emit" /\ Len(ts) < MaxStream
Parsing == mode = "parse"

EmitKeyword(k) ==
    /\ Emitting
    /\ ts = <<>> \/ k \in SampleKeywords
    /\ ts' = keyword_to_tokens(k, ts)
    /\ UNCHANGED <<cursor, mode, res, lexVars>>

EmitPunct(q) ==
    /\ Emitting
    /\ ts = <<>> \/ q \in SamplePuncts
    /\ ts' = punct_to_tokens(q, ts)
    /\ UNCHANGED <<cursor, mode, res, lexVars>>

EmitDelimited(inner, delim) ==
    /\ Emitting
    /\ ts' = delimited_to_tokens(inner, delim, ts)
    /\ UNCHANGED <<cursor, mode, res, lexVars>>

\* TokenStream::parse: a ParseStream over ts, its cursor on the first entry
StartParse ==
    /\ mode = "emit"
    /\ mode' = "parse"
    /\ cursor' = 0
    /\ UNCHANGED <<ts, res, lexVars>>

ParseKeyword(k) ==
    LET r == token_parse(keyword_peek(k, cursor), cursor, KEYWORDS[k].ident)
    IN  /\ Parsing
        /\ cursor' = r.cursor
        /\ res' = [call |-> "token", ok |-> r.ok, value |-> r.value]
        /\ UNCHANGED <<ts, mode, lexVars>>

ParsePunct(q) ==
    LET r == token_parse(punct_peek(q, cursor), cursor, MATCH_PUNCT[q].punct)
    IN  /\ Parsing
        /\ cursor' = r.cursor
        /\ res' = [call |-> "token", ok |-> r.ok, value |-> r.value]
        /\ UNCHANGED <<ts, mode, lexVars>>

ParseInner(delim) ==
    LET r == parse_inner(delim, cursor)
    IN  /\ Parsing
        /\ cursor' = r.cursor
        /\ res' = [call |-> "inner", ok |-> r.ok, value |-> IF r.ok THEN delim ELSE ""]
        /\ UNCHANGED <<ts, mode, lexVars>>

NextParse ==
    \/ \E k \in Keywords : EmitKeyword(k)
    \/ \E q \in Puncts : EmitPunct(q)
    \/ \E inner \in InnerStreams, delim \in Delimeters : EmitDelimited(inner, delim)
    \/ StartParse
    \/ \E k \in Keywords : ParseKeyword(k)
    \/ \E q \in Puncts : ParsePunct(q)
    \/ \E delim \in Delimeters : ParseInner(delim)

SpecParse == InitParse /\ [][NextParse]_vars

-----------------------------------------------------------------------------
(* Reference notions the properties are stated with.                       *)

MaxOf(S) == CHOOSE j \in S : \A k \in S : k <= j

\* 1-based row and column of input[i] in the source text
NewlinesBefore(i) == {j \in 1..(i - 1) : input[j] = "\n"}
SourceRow(i) == 1 + Cardinality(NewlinesBefore(i))
SourceCol(i) == IF NewlinesBefore(i) = {} THEN i ELSE i - MaxOf(NewlinesBefore(i))

\* delimiter nesting of a run of flat units, by the usual stack discipline:
\* "mismatched" at the first close whose kind is not that of the innermost
\* open group (or with no group open), "unterminated" if the run ends with a
\* group open, "balanced" otherwise
RECURSIVE Nesting(_, _, _)
Nesting(s, i, open) ==
    IF i > Len(s) THEN (IF open = <<>> THEN "balanced" ELSE "unterminated")
    ELSE IF s[i].ty = "Group" THEN Nesting(s, i + 1, Append(open, s[i].name))
    ELSE IF s[i].ty = "End"
         THEN IF open # <<>> /\ open[Len(open)] = s[i].name
              THEN Nesting(s, i + 1, SubSeq(open, 1, Len(open) - 1))
              ELSE "mismatched"
    ELSE Nesting(s, i + 1, open)

\* the tree of a balanced run: one Group per open/close pair, holding the
\* units between the two
RECURSIVE NestedTree(_, _, _)
NestedTree(s, i, frames) ==
    IF i > Len(s) THEN frames[1].vec
    ELSE LET u == s[i]
             top == frames[Len(frames)]
         IN  IF u.ty = "Group"
             THEN NestedTree(s, i + 1,
                      Append(frames, [vec |-> <<>>, group |-> u.name,
                                      col |-> u.col, row |-> u.row]))
             ELSE IF u.ty = "End"
             THEN LET parent == frames[Len(frames) - 1]
                  IN  NestedTree(s, i + 1,
                          Append(SubSeq(frames, 1, Len(frames) - 2),
                              [parent EXCEPT !.vec = Append(parent.vec,
                                  TokenCell(top.col, top.row,
                                      TokenTree("Group", <<>>, top.group, top.vec)))]))
             ELSE NestedTree(s, i + 1,
                      Append(SubSeq(frames, 1, Len(frames) - 1),
                          [top EXCEPT !.vec = Append(top.vec,
                              TokenCell(u.col, u.row,
                                  TokenTree(u.ty, u.text, u.name, <<>>)))]))

\* split returned Ok(vec)
SplitOk == pc \in {"fold", "done"} /\ stack # <<>>

\* the candidates the punctuator arm grows from input[i]: input[i..j] for
\* the j up to the first candidate the matcher answers None to
Grown(i) ==
    {j \in i..Len(input) :
        \A k \in i..j : match_punct(SubSeq(input, i, k)).kind # "None"}
MatchedAt(i) == {j \in Grown(i) : match_punct(SubSeq(input, i, j)).kind = "Matched"}
\* Matched, later Partial, and not Matched again
FallbackCase(i) ==
    /\ MatchedAt(i) # {}
    /\ match_punct(SubSeq(input, i, MaxOf(Grown(i)))).kind = "Partial"
LastMatched(i) == match_punct(SubSeq(input, i, MaxOf(MatchedAt(i)))).punct

MultiCharPuncts == {q \in Puncts : Len(MATCH_PUNCT[q].str) >= 2}

\* the maximal run of alphanumeric-or-underscore characters from input[i]
IsIdentChar(c) == is_alphabetic(c) \/ is_numeric(c) \/ c = "_"
RunEnd(i) == MaxOf({j \in i..Len(input) : \A k \in i..j : IsIdentChar(input[k])})
IdentifierRun(i) == SubSeq(input, i, RunEnd(i))

KeywordNamed(ident) == CHOOSE k \in Keywords : KEYWORDS[k].ident = ident

\* characters taken out of the Peekable, units left in the active iterators
Consumed == n - (IF peeked THEN 1 ELSE 0)
RECURSIVE UnitsIn(_)
UnitsIn(frames) ==
    IF frames = <<>> THEN 0 ELSE Len(Head(frames).iter) + UnitsIn(Tail(frames))
UnitsLeft == UnitsIn(stack)
\* a bound on the number of steps parse_str still takes
Rank ==
    CASE pc = "split" -> 3 * (Len(input) - Consumed) + 2 * Len(vec) + 2
      [] pc = "fold" -> 2 * UnitsLeft + Len(stack)
      [] OTHER -> 0

MissingQuote == "missing closing '\"' for string literal"

-----------------------------------------------------------------------------
(* Properties.                                                             *)

\* C1: when the delimiters of the scanned units are balanced and properly
\* nested (same-kind nesting included), tokenize succeeds and returns the
\* tree with one Group per open/close pair holding the units between them.
C1_BalancedGroupsNest ==
    (pc = "done" /\ SplitOk /\ Nesting(vec, 1, <<>>) = "balanced")
        => (result = "ok"
            /\ tree = NestedTree(vec, 1, <<[vec |-> <<>>, group |-> "", col |-> 0, row |-> 0]>>))

\* C2: a close delimiter whose kind differs from the innermost open group,
\* or with no group open, never yields a token tree.
C2_MismatchedCloseRejected ==
    (SplitOk /\ Nesting(vec, 1, <<>>) = "mismatched") => result # "ok"

\* C3: an input that ends inside an open group never yields a token tree.
C3_UnterminatedGroupRejected ==
    (SplitOk /\ Nesting(vec, 1, <<>>) = "unterminated") => result # "ok"

\* C4: tokenizing exactly a punctuator of two or more characters yields one
\* Punctuator unit of the variant the table maps it to: never more than one
\* unit, never an error.
C4_MultiCharPunctIsOneUnit ==
    \A q \in MultiCharPuncts :
        input = MATCH_PUNCT[q].str =>
            /\ Len(vec) <= 1
            /\ result \notin {"err", "panic"}
            /\ SplitOk =>
                   vec = <<[col |-> 1, row |-> 1, ty |-> "Punct", text |-> <<>>,
                            name |-> MATCH_PUNCT[q].punct]>>
            /\ pc = "done" =>
                   /\ result = "ok"
                   /\ Len(tree) = 1
                   /\ tree[1].tt = TokenTree("Punct", <<>>, MATCH_PUNCT[q].punct, <<>>)

C4_Witness ==
    /\ pc = "done"
    /\ result = "ok"
    /\ input = <<"%", ":", "%", ":">>
    /\ Len(tree) = 1
    /\ tree[1].tt.name = "DoublePercentColon"

\* C5: when the candidate grown from a position was Matched, then Partial,
\* and not Matched again, the punctuator arm does not fail there and the unit
\* it pushes is the last Matched punctuator.
C5_FallsBackToLastMatched ==
    \A i \in 1..Len(input) :
        FallbackCase(i) =>
            /\ ~(result = "err" /\ errAt = i)
            /\ \A u \in 1..Len(vec) :
                   (first[u] = i /\ vec[u].ty = "Punct") => vec[u].name = LastMatched(i)

\* C6: every unit of the flat scan records the 1-based row and column of
\* its first character.
C6_UnitPositionIsFirstChar ==
    \A u \in 1..Len(vec) :
        /\ vec[u].row = SourceRow(first[u])
        /\ vec[u].col = SourceCol(first[u])

\* C7: tokenize never aborts the process; a digit run that is not a valid
\* i128 is answered with an error that carries a position.
C7_BadNumberIsLexError ==
    /\ result # "panic"
    /\ (pc = "done" /\ errAt > 0 /\ is_numeric(input[errAt])) =>
           (result = "err" /\ error.row >= 1 /\ error.col >= 1)

\* C8: a string opened by a quote that is never closed fails with the
\* missing-closing-quote error, positioned at the opening quote.
C8_UnterminatedStringAtQuote ==
    (pc = "done" /\ errAt > 0 /\ input[errAt] = Quote) =>
        /\ result = "err"
        /\ error.msg = MissingQuote
        /\ error.row = SourceRow(errAt)
        /\ error.col = SourceCol(errAt)

\* C9: a parse call that fails (a keyword or punctuator marker whose peek
\* is false, or parse_inner on a node that is not a Group of the asked kind,
\* end of buffer included) leaves the cursor and the stream as they were.
C9_FailedParseKeepsCursor ==
    [][(Parsing /\ res'.call # "" /\ ~res'.ok) => (cursor' = cursor /\ ts' = ts)]_vars

C9_Witness ==
    /\ Parsing
    /\ res.call = "token"
    /\ ~res.ok
    /\ Len(ts) = 2
    /\ cursor = 1
    /\ ts[2].tt.ty = "Group"

\* C10: emitting a keyword or punctuator marker into an empty stream yields
\* exactly one token, and parsing that stream as the same marker succeeds,
\* returns the marker and leaves the cursor at the end of the buffer.
C10_EmitThenParse ==
    [][/\ (mode = "emit" /\ ts = <<>>) =>
            /\ \A k \in Keywords : EmitKeyword(k) => Len(ts') = 1
            /\ \A q \in Puncts : EmitPunct(q) => Len(ts') = 1
       /\ (Parsing /\ cursor = 0 /\ Len(ts) = 1) =>
            /\ \A k \in Keywords :
                   (ts = keyword_to_tokens(k, <<>>) /\ ParseKeyword(k)) =>
                       (res'.ok /\ res'.value = KEYWORDS[k].ident
                        /\ cursor' = 1 /\ cursor' = Len(ts'))
            /\ \A q \in Puncts :
                   (ts = punct_to_tokens(q, <<>>) /\ ParsePunct(q)) =>
                       (res'.ok /\ res'.value = MATCH_PUNCT[q].punct
                        /\ cursor' = 1 /\ cursor' = Len(ts'))
      ]_vars

C10_Witness ==
    /\ Parsing
    /\ cursor = 1
    /\ res.call = "token"
    /\ res.ok
    /\ \E k \in Keywords : ts = keyword_to_tokens(k, <<>>) /\ res.value = KEYWORDS[k].ident

\* C11: a unit that starts on an alphabetic character is one Identifier
\* whose text is the whole maximal run of alphanumeric-or-underscore
\* characters; the next unit starts after the run, the arm never fails, and
\* a keyword marker's peek on it is true only if the keyword is the whole run
\* (so the peek of `int` on `intx` is false).
C11_IdentifierIsWholeRun ==
    /\ \A u \in 1..Len(vec) :
           is_alphabetic(input[first[u]]) =>
               /\ vec[u].ty = "Ident"
               /\ vec[u].text = IdentifierRun(first[u])
               /\ u < Len(vec) => first[u + 1] > RunEnd(first[u])
    /\ errAt > 0 => ~is_alphabetic(input[errAt])
    /\ (mode = "parse" /\ vec # <<>> /\ is_alphabetic(input[first[1]])) =>
           \A k \in Keywords :
               keyword_peek(k, 0) <=> (IdentifierRun(first[1]) = KEYWORDS[k].str)

C11_Witness ==
    /\ input = <<"i", "n", "t", "x">>
    /\ mode = "parse"
    /\ Len(ts) = 1
    /\ ts[1].tt.ty = "Ident"
    /\ ts[1].tt.text = input
    /\ ~keyword_peek(KeywordNamed("Int"), 0)

\* C12: in emission order the recorded row of the units never decreases,
\* and between consecutive units recorded on the same row the recorded
\* column never decreases.
C12_PositionsMonotonic ==
    \A u \in 1..(Len(vec) - 1) :
        /\ vec[u].row <= vec[u + 1].row
        /\ vec[u].row = vec[u + 1].row => vec[u].col <= vec[u + 1].col

C12_Witness ==
    /\ Len(vec) = 3
    /\ vec[1].row = vec[2].row
    /\ vec[1].col < vec[2].col
    /\ vec[2].row < vec[3].row
    /\ vec[3].col < vec[2].col

\* C13: tokenize terminates: an iteration of the scanner's loop consumes a
\* character or returns an error, a step of the builder that is not the
\* return of a call consumes a flat unit, and every step of parse_str lowers
\* a natural-valued rank that is at most 3 * Len(input) + 2, so that
\* parse_str ends within that many steps.
C13_Terminates ==
    [][((pc = "split" /\ pc' # "fold") => (Consumed' > Consumed \/ result' = "err"))
       /\ ((pc = "fold" /\ pc' = "fold" /\ Len(stack') >= Len(stack)) =>
               (UnitsLeft' < UnitsLeft))
       /\ ((pc \in {"split", "fold"}) =>
               (Rank <= 3 * Len(input) + 2 /\ Rank' < Rank /\ Rank' >= 0))]_vars

C13_Witness ==
    /\ pc = "done"
    /\ result = "ok"
    /\ Len(input) = 4
    /\ Len(vec) = 4
    /\ Len(tree) = 1
    /\ Len(tree[1].tt.stream) = 1
    /\ tree[1].tt.stream[1].tt.ty = "Group"

\* C14: tokenizing the display text of a keyword on its own never fails and
\* yields exactly one Identifier unit, on which the keyword's peek is true.
C14_KeywordTextLexes ==
    \A k \in Keywords :
        input = KEYWORDS[k].str =>
            /\ result \notin {"err", "panic"}
            /\ SplitOk => (Len(vec) = 1 /\ vec[1].ty = "Ident")
            /\ mode = "parse" => (Len(ts) = 1 /\ keyword_peek(k, 0))

====
